---- MODULE Spec2Model ----
(***************************************************************************)
(* Session / auth gateway of the UK road-safety dashboard.                 *)
(*                                                                         *)
(*   services/api.js (src/unnamed/part_001)  axios instance with the       *)
(*                                           request / response            *)
(*                                           interceptors                  *)
(*   context/AuthContext.jsx                 AuthProvider: mount effect,   *)
(*                                           verifyToken, login, signup,   *)
(*                                           logout, updateProfile,        *)
(*                                           regenerateApiKey              *)
(*                                                                         *)
(* JavaScript runs every handler to completion, so one action is one       *)
(* handler: a call up to its first await, or the arrival of a response     *)
(* (response interceptor followed by the continuation of the awaiting      *)
(* function).  Requests that were sent stay in flight until their response *)
(* arrives or the page is unloaded; nothing cancels them.                  *)
(***************************************************************************)
EXTENDS Integers, Sequences, FiniteSets, TLC

\* ------------------------------------------------------------------ bounds
\* Number of requests the page sends before the model stops sending.
MaxRequests == 2

\* Largest number of clicks on the map, and the time the clock reaches (ms).
MaxCalls == 3
MaxTime == 700

\* Longest list of accidents given to useVisibleMarkers.
MaxLen == 4

\* Largest number of loads a view starts.
MaxLoads == 2

\* Largest accident count and largest risk score of a record.
MaxCount == 101
MaxScore == 201

\* ------------------------------------------------------------------ values
\* null / undefined / an absent localStorage entry / an absent header
None == "none"

\* access tokens the server may issue
Tokens == {"t1", "t2"}

\* user profiles the server may return (the profile carries its api_key)
Profiles == { [id |-> "u1", api_key |-> "k1"], [id |-> "u1", api_key |-> "k2"] }

\* the in-memory user when nobody is logged in (useState(null)), and the
\* `user` member of a response body that has none
NullUser == [id |-> None, api_key |-> None]

\* JavaScript truthiness of a string-or-null value
Truthy(v) == v # None /\ v # ""

\* JSON.stringify of a profile; JSON.stringify(undefined) is undefined
Stringify(p) == IF p = NullUser THEN None
                ELSE "{" \o p.id \o "," \o p.api_key \o "}"

\* localStorage.setItem(key, value) stores String(value)
ToStored(v) == IF v = None THEN "undefined" ELSE v

\* JSON.parse succeeds on the texts JSON.stringify produced
CanParse(s) == \E p \in Profiles : Stringify(p) = s
Parse(s) == CHOOSE p \in Profiles : Stringify(p) = s

\* ------------------------------------------------------------------ URLs
\* A URL is the sequence of its separators and path segments.
LoginUrl      == << "/", "users", "/", "login" >>
SignupUrl     == << "/", "users", "/", "signup" >>
VerifyUrl     == << "/", "users", "/", "verify-token" >>
ProfileUrl    == << "/", "users", "/", "me" >>
RegenerateUrl == << "/", "users", "/", "regenerate-api-key" >>
UsageUrl      == << "/", "users", "/", "usage-stats" >>
SchoolsUrl    == << "/", "schools" >>

\* URLs of the data fetches issued by the views
DataUrls == { SchoolsUrl, UsageUrl }

\* String.prototype.includes on the segmented form
Includes(url, pat) ==
  \E i \in 0..(Len(url) - Len(pat)) : SubSeq(url, i + 1, i + Len(pat)) = pat

\* pattern of the request interceptor's test for a user-account endpoint
UsersPath == << "/", "users", "/" >>

\* --------------------------------------------------------- error messages
\* A JavaScript value used as an error message: null, undefined, a string,
\* or a non-string value (FastAPI reports request-validation errors with a
\* list under `detail`).
Msg(kind, text) == [kind |-> kind, text |-> text]
NullMsg      == Msg("null", "")
Undefined    == Msg("undefined", "")
Str(t)       == Msg("string", t)
ArrayDetail  == Msg("array", "[{loc,msg,type}]")

\* the `detail` member a failed response may carry
Details == { Undefined, Str(""), Str("Invalid credentials"), ArrayDetail }

\* JavaScript truthiness of a message value
TruthyMsg(m) == m.kind = "array" \/ (m.kind = "string" /\ m.text # "")

\* a || b
Or(a, b) == IF TruthyMsg(a) THEN a ELSE b

\* ------------------------------------------------------------- the state
VARIABLES
  storage,      \* localStorage: the entries token, user, api_key
  defaultAuth,  \* api.defaults.headers.common['Authorization'] (the token of "Bearer <token>")
  user,         \* AuthProvider state `user`
  loading,      \* AuthProvider state `loading`
  error,        \* AuthProvider state `error`
  redirect,     \* window.location.href = '/login' was assigned; the navigation is pending
  mounted,      \* the mount effect of AuthProvider has run
  inflight,     \* requests sent whose response has not arrived
  nextId,       \* number of requests sent so far
  last,         \* the handler that ran last: what it was given and what it returned
  rec,          \* pages: the hotspot or school record being rendered
  shown,        \* pages: the risk labels rendered for `rec`
  form,         \* Signup: formData, isLoading, error, and whether it navigated
  view,         \* the state of the open view (Hotspots or SchoolSafety)
  loads,        \* the loads of the view whose responses are awaited
  nextLoad,     \* number of loads the view has started
  amap,         \* AccidentMap: page state, the timers of window, the clock
  hist,         \* AccidentMap: the calls of debouncedSearch and the runs of its callback
  markers,      \* AccidentMap: the accidents, maxVisible and the visible markers
  dash          \* Dashboard: page state and its loads

\* the session, the provider and the requests of the gateway
authVars == << storage, defaultAuth, user, loading, error, redirect, mounted,
               inflight, nextId, last >>

\* the state of the pages
riskVars == << rec, shown >>
formVars == << form >>
viewVars == << view, loads, nextLoad >>
mapVars == << amap, hist >>
toolVars == << mapVars, markers, dash >>
pageVars == << riskVars, formVars, viewVars, toolVars >>

vars == << authVars, pageVars >>

EmptyStorage == [token |-> None, user |-> None, api_key |-> None]

\* localStorage.setItem / removeItem
SetItem(store, key, value) == [store EXCEPT ![key] = ToStored(value)]
RemoveItem(store, key)     == [store EXCEPT ![key] = None]

\* The session as the handlers see it: the persisted entries, the default
\* header of the axios instance, the provider's state and the pending
\* navigation.
Cur == [storage |-> storage, defaultAuth |-> defaultAuth, user |-> user,
        error |-> error, redirect |-> redirect]

Becomes(st) ==
  /\ storage'     = st.storage
  /\ defaultAuth' = st.defaultAuth
  /\ user'        = st.user
  /\ error'       = st.error
  /\ redirect'    = st.redirect

\* ---------------------------------------------- the handler that ran last
NoBody == [access_token |-> None, user |-> NullUser]
NoHeaders == [XApiKey |-> None, Authorization |-> None]

\* no promise of a data fetch was settled by the handler
NoPromise == [state |-> None,
              value |-> [status |-> 0, detail |-> Undefined, body |-> NoBody]]

\* `before` is the session as the handler found it; `promise` is what the
\* response interceptor handed to the view that awaits a data fetch
Event(ev, op, url, status, detail, body, headers, success, err) ==
  [ev |-> ev, op |-> op, url |-> url, status |-> status, detail |-> detail,
   body |-> body, headers |-> headers, success |-> success, error |-> err,
   before |-> Cur, promise |-> NoPromise]

\* an event of a handler that takes no request and returns nothing
Plain(ev) == Event(ev, None, << >>, 0, Undefined, NoBody, NoHeaders, None, NullMsg)

\* ------------------------------------------------------ server responses
\* What arrives for a request: a response with a status and a body, or no
\* response at all (network failure, timeout): status 0.
NetworkFailure == 0
ErrorStatuses == { 401, 422 }

Outcome(status, detail, body) == [status |-> status, detail |-> detail, body |-> body]

Failures ==
  { Outcome(s, d, NoBody) : s \in ErrorStatuses, d \in Details }
    \cup { Outcome(NetworkFailure, Undefined, NoBody) }

\* POST /users/login, /users/signup -> {access_token, user}; the body of a
\* 2xx response may lack the user object
AuthOutcomes ==
  { Outcome(200, Undefined, [access_token |-> t, user |-> u]) :
      t \in Tokens, u \in Profiles \cup {NullUser} } \cup Failures

\* PUT /users/me, POST /users/regenerate-api-key -> the updated profile
ProfileOutcomes ==
  { Outcome(200, Undefined, [access_token |-> None, user |-> u]) : u \in Profiles }
    \cup Failures

\* GET /users/verify-token and the data fetches: neither the body nor the
\* detail of a failure is read by the gateway
PlainOutcomes ==
  { Outcome(s, Undefined, NoBody) : s \in {200, NetworkFailure} \cup ErrorStatuses }

\* err.response?.data?.detail
DetailOf(out) == IF out.status = NetworkFailure THEN Undefined ELSE out.detail

\* ------------------------------------------------ services/api.js (axios)
\* RequestInterceptor writing the bearer header over one already present
RequestInterceptorOverrides(st, url) ==
  [ XApiKey |->
      IF Truthy(st.storage.api_key) /\ ~Includes(url, UsersPath)
      THEN st.storage.api_key ELSE None,
    Authorization |->
      IF Truthy(st.storage.token) THEN st.storage.token ELSE st.defaultAuth ]

\* RequestInterceptor with the test of the URL left out
RequestInterceptorAnyUrl(st, url) ==
  [ XApiKey |-> IF Truthy(st.storage.api_key) THEN st.storage.api_key ELSE None,
    Authorization |->
      IF Truthy(st.storage.token) /\ ~Truthy(st.defaultAuth) THEN st.storage.token
      ELSE st.defaultAuth ]

\* Request interceptor.  config.headers holds the instance defaults merged
\* with the call's own headers; no caller passes headers of its own.
RequestInterceptor(st, url) ==
  LET apiKey == st.storage.api_key
      token  == st.storage.token
  IN [ XApiKey |->
         IF Truthy(apiKey) /\ ~Includes(url, UsersPath) THEN apiKey ELSE None,
       Authorization |->
         IF Truthy(token) /\ ~Truthy(st.defaultAuth) THEN token
         ELSE st.defaultAuth ]

\* ResponseInterceptor turning a failure into an empty result
ResponseInterceptorSwallows(out) ==
  [state |-> "fulfilled",
   value |-> IF out.status = 200 THEN out ELSE Outcome(200, Undefined, NoBody)]

\* Response interceptor: what the awaiting caller receives.  A response is
\* returned as it is, an error is rejected again as it is.
ResponseInterceptor(out) ==
  [state |-> IF out.status = 200 THEN "fulfilled" ELSE "rejected", value |-> out]

\* IsAuthEndpoint with the signup half of the test left out
IsAuthEndpointLoginOnly(url) == Includes(url, LoginUrl)

\* the interceptor's test for a login / signup request
IsAuthEndpoint(url) == Includes(url, LoginUrl) \/ Includes(url, SignupUrl)

\* ResponseRejected with removeItem('api_key') left out
ResponseRejectedKeepsKey(st, status, url) ==
  IF status = 401 /\ ~IsAuthEndpoint(url)
  THEN [st EXCEPT !.storage  = RemoveItem(RemoveItem(@, "token"), "user"),
                  !.redirect = TRUE]
  ELSE st

\* ResponseRejected with the assignment of window.location.href left out
ResponseRejectedNoRedirect(st, status, url) ==
  IF status = 401 /\ ~IsAuthEndpoint(url)
  THEN [st EXCEPT
          !.storage = RemoveItem(RemoveItem(RemoveItem(@, "token"), "user"), "api_key")]
  ELSE st

\* ResponseRejected tearing the session down on every failure
ResponseRejectedAnyFailure(st, status, url) ==
  IF ~IsAuthEndpoint(url)
  THEN [st EXCEPT
          !.storage  = RemoveItem(RemoveItem(RemoveItem(@, "token"), "user"), "api_key"),
          !.redirect = TRUE]
  ELSE st

\* Response interceptor, rejected branch: the effect on the session before
\* the error is re-rejected to the caller.
ResponseRejected(st, status, url) ==
  IF status = 401 /\ ~IsAuthEndpoint(url)
  THEN [st EXCEPT
          !.storage  = RemoveItem(RemoveItem(RemoveItem(@, "token"), "user"), "api_key"),
          !.redirect = TRUE]
  ELSE st

\* --------------------------------------------------- context/AuthContext
\* What an async operation of the provider leaves behind when it settles:
\* the session and the value it returns.
Result(st, success, err) ==
  [st |-> st, success |-> success, error |-> err, promise |-> NoPromise]

\* logout with the delete of the default header left out
logoutKeepsHeader(st) ==
  [st EXCEPT !.storage = RemoveItem(RemoveItem(RemoveItem(@, "token"), "user"), "api_key"),
             !.user    = NullUser]

logout(st) ==
  [st EXCEPT !.storage     = RemoveItem(RemoveItem(RemoveItem(@, "token"), "user"), "api_key"),
             !.defaultAuth = None,
             !.user        = NullUser]

\* AuthSettled with setItem('api_key', ...) left out
AuthSettledNoKey(st, url, generic, out) ==
  IF out.status = 200 /\ out.body.user # NullUser
  THEN Result([st EXCEPT
                 !.storage = SetItem(SetItem(@, "token", out.body.access_token),
                                     "user", Stringify(out.body.user)),
                 !.defaultAuth = out.body.access_token,
                 !.user = out.body.user],
              "true", NullMsg)
  ELSE Result([ResponseRejected(st, out.status, url) EXCEPT !.error = Str(generic)],
              "false", Str(generic))

\* login / signup after the await: the try block on a fulfilled request and
\* the catch block otherwise.  `userData.api_key` throws a TypeError when
\* the body has no user, after the token, the profile text and the default
\* header were written; the TypeError has no `response`.
AuthSettled(st, url, generic, out) ==
  IF out.status = 200
  THEN LET body == out.body
           s1 == SetItem(st.storage, "token", body.access_token)
           s2 == SetItem(s1, "user", Stringify(body.user))
           written == [st EXCEPT !.storage = s2, !.defaultAuth = body.access_token]
       IN IF body.user = NullUser
          THEN Result([written EXCEPT !.error = Str(generic)], "false", Str(generic))
          ELSE Result([written EXCEPT
                         !.storage = SetItem(s2, "api_key", body.user.api_key),
                         !.user    = body.user],
                      "true", NullMsg)
  ELSE LET message == Or(DetailOf(out), Str(generic))
       IN Result([ResponseRejected(st, out.status, url) EXCEPT !.error = message],
                 "false", message)

login(st, out)  == AuthSettled(st, LoginUrl, "Login failed", out)
signup(st, out) == AuthSettled(st, SignupUrl, "Signup failed", out)

\* verifyToken after the await: any rejection ends in logout()
verifyToken(st, out) ==
  IF out.status = 200 THEN Result(st, None, NullMsg)
  ELSE Result(logout(ResponseRejected(st, out.status, VerifyUrl)), None, NullMsg)

\* updateProfile storing the api_key of the response as well
updateProfileStoresKey(st, out) ==
  IF out.status = 200
  THEN Result([st EXCEPT !.storage = SetItem(SetItem(@, "user", Stringify(out.body.user)),
                                             "api_key", out.body.user.api_key),
                         !.user    = out.body.user],
              "true", NullMsg)
  ELSE Result(ResponseRejected(st, out.status, ProfileUrl),
              "false", Or(DetailOf(out), Str("Update failed")))

updateProfile(st, out) ==
  IF out.status = 200
  THEN Result([st EXCEPT !.storage = SetItem(@, "user", Stringify(out.body.user)),
                         !.user    = out.body.user],
              "true", NullMsg)
  ELSE Result(ResponseRejected(st, out.status, ProfileUrl),
              "false", Or(DetailOf(out), Str("Update failed")))

regenerateApiKey(st, out) ==
  IF out.status = 200
  THEN Result([st EXCEPT
                 !.storage = SetItem(SetItem(@, "user", Stringify(out.body.user)),
                                     "api_key", out.body.user.api_key),
                 !.user    = out.body.user],
              "true", NullMsg)
  ELSE Result(ResponseRejected(st, out.status, RegenerateUrl),
              "false", Or(DetailOf(out), Str("Failed to regenerate API key")))

\* a data fetch of a view: the gateway's part is the response interceptor;
\* the rejection goes on to the view
dataFetch(st, url, out) ==
  LET p == ResponseInterceptor(out)
  IN [Result(IF p.state = "fulfilled" THEN st
             ELSE ResponseRejected(st, p.value.status, url),
             None, NullMsg)
        EXCEPT !.promise = p]

\* MountEffect with an empty catch block
MountEffectNoLogout(st) ==
  IF Truthy(st.storage.token) /\ Truthy(st.storage.user) /\ CanParse(st.storage.user)
  THEN [st |-> [st EXCEPT !.user = Parse(st.storage.user),
                          !.defaultAuth = st.storage.token],
        verify |-> TRUE]
  ELSE [st |-> st, verify |-> FALSE]

\* The mount effect of AuthProvider: restore a stored session.  `verify`
\* tells whether verifyToken() was called.
MountEffect(st) ==
  LET token      == st.storage.token
      storedUser == st.storage.user
  IN IF Truthy(token) /\ Truthy(storedUser)
     THEN IF CanParse(storedUser)
          THEN [st |-> [st EXCEPT !.user = Parse(storedUser), !.defaultAuth = token],
                verify |-> TRUE]
          ELSE [st |-> logout(st), verify |-> FALSE]
     ELSE [st |-> st, verify |-> FALSE]

\* ------------------------------------------------- pages: risk labels
\* an absent member of a record, or an absent argument (undefined)
Missing == -1

\* a >= b in JavaScript, undefined compared with a number being false
JsGe(a, b) == a # Missing /\ a >= b

\* a || 0 for a count
OrZero(a) == IF a = Missing THEN 0 ELSE a

\* RISK_LEVELS[...].threshold of the school page
HighThreshold == 10
MediumThreshold == 5

\* the minimums of getRiskCategory
CriticalCount == 100
CriticalScore == 200
VeryHighCount == 50
VeryHighScore == 100
HighCount == 25
HighScore == 50
ModerateCount == 10
ModerateScore == 20

\* getRiskLevel comparing with > where the code compares with >=
getRiskLevelStrict(accidentCount) ==
  IF accidentCount # Missing /\ accidentCount > HighThreshold THEN "high"
  ELSE IF accidentCount # Missing /\ accidentCount > MediumThreshold THEN "medium"
  ELSE "low"

\* SchoolSafety: getRiskLevel
getRiskLevel(accidentCount) ==
  IF JsGe(accidentCount, HighThreshold) THEN "high"
  ELSE IF JsGe(accidentCount, MediumThreshold) THEN "medium"
  ELSE "low"

\* getRiskCategory with the comparison of the count turned round in the
\* High test
getRiskCategoryFlipped(score, accidentCount) ==
  IF JsGe(accidentCount, CriticalCount) \/ JsGe(score, CriticalScore) THEN "Critical"
  ELSE IF JsGe(accidentCount, VeryHighCount) \/ JsGe(score, VeryHighScore) THEN "Very High"
  ELSE IF (accidentCount # Missing /\ accidentCount <= HighCount) \/ JsGe(score, HighScore)
       THEN "High"
  ELSE IF JsGe(accidentCount, ModerateCount) \/ JsGe(score, ModerateScore) THEN "Moderate"
  ELSE "Low"

\* getRiskCategory testing the categories from the least severe upwards
getRiskCategoryLeastFirst(score, accidentCount) ==
  IF JsGe(accidentCount, ModerateCount) \/ JsGe(score, ModerateScore) THEN "Moderate"
  ELSE IF JsGe(accidentCount, HighCount) \/ JsGe(score, HighScore) THEN "High"
  ELSE IF JsGe(accidentCount, VeryHighCount) \/ JsGe(score, VeryHighScore) THEN "Very High"
  ELSE IF JsGe(accidentCount, CriticalCount) \/ JsGe(score, CriticalScore) THEN "Critical"
  ELSE "Low"

\* Hotspots: getRiskCategory
getRiskCategory(score, accidentCount) ==
  IF JsGe(accidentCount, CriticalCount) \/ JsGe(score, CriticalScore) THEN "Critical"
  ELSE IF JsGe(accidentCount, VeryHighCount) \/ JsGe(score, VeryHighScore) THEN "Very High"
  ELSE IF JsGe(accidentCount, HighCount) \/ JsGe(score, HighScore) THEN "High"
  ELSE IF JsGe(accidentCount, ModerateCount) \/ JsGe(score, ModerateScore) THEN "Moderate"
  ELSE "Low"

\* HotspotMap: the category of a marker
MarkerCategory(h) ==
  IF Truthy(h.risk_category) THEN h.risk_category
  ELSE getRiskCategory(h.risk_score, h.accident_count)

\* HotspotTable: the category of a row
RowCategory(h) ==
  IF Truthy(h.risk_category) THEN h.risk_category
  ELSE getRiskCategory(h.risk_score, h.accident_count)

\* Hotspots.stats: the category a record is counted under (the cards show
\* the counts of Critical, Very High and High)
CardCategory(h) == getRiskCategory(h.risk_score, h.accident_count)

\* SchoolSafetyMap, SchoolsList, SchoolDetailPanel: the level of a school
SchoolLevel(school) == getRiskLevel(OrZero(school.accident_count))

\* ------------------------------------------------- pages: the signup form
\* what the user types into the password fields: nothing, seven
\* characters, eight characters, another eight characters
Passwords == { "", "seven77", "eight888", "other888" }

\* validateForm: the least length of a password
MinPasswordLength == 8

\* Signup: useState() initial values
NoForm ==
  [password |-> "", confirmPassword |-> "", isLoading |-> FALSE,
   error |-> Str(""), navigated |-> FALSE]

\* validateForm without the comparison with the confirmation
validateFormLengthOnly(f) ==
  IF Len(f.password) < MinPasswordLength
  THEN [ok |-> FALSE, error |-> Str("Password must be at least 8 characters")]
  ELSE [ok |-> TRUE, error |-> f.error]

\* Signup: validateForm
validateForm(f) ==
  IF Len(f.password) < MinPasswordLength
  THEN [ok |-> FALSE, error |-> Str("Password must be at least 8 characters")]
  ELSE IF f.password # f.confirmPassword
  THEN [ok |-> FALSE, error |-> Str("Passwords do not match")]
  ELSE [ok |-> TRUE, error |-> f.error]

\* ------------------------------------------------- pages: the loaders
\* the years of the year filter of Hotspots, the schools of the list
Years == { "2023", "2024" }
Urns == { "s1", "s2" }

HotspotsUrl    == << "/", "analytics", "/", "hotspots" >>
HeatmapUrl     == << "/", "analytics", "/", "heatmap-data" >>
ConditionsUrl  == << "/", "analytics", "/", "accident-conditions" >>
SchoolDetailUrl == << "/", "schools", "/", "urn" >>

\* the fetches of Hotspots.loadData, the fetch of handleSelectSchool
Fetches == { "hotspots", "heatmap", "conditions" }
DetailFetch == { "detail" }

FetchUrl(f) ==
  CASE f = "hotspots"   -> HotspotsUrl
    [] f = "heatmap"    -> HeatmapUrl
    [] f = "conditions" -> ConditionsUrl
    [] f = "detail"     -> SchoolDetailUrl

Pending == "pending"

\* [] and the list the server returns for a selection
EmptyList == << >>
ListFor(sel) == << sel >>

\* null as the conditions of Hotspots; null as selectedSchool
NullData == << "null" >>
NoSchool == [urn |-> None, detail |-> FALSE]

NoView == [page |-> None]

\* Hotspots: useState() initial values, the effect not yet run
HotspotsInitial ==
  [page |-> "hotspots", mounted |-> FALSE, selectedYear |-> "2023",
   hotspots |-> EmptyList, heatmapData |-> EmptyList, conditions |-> NullData,
   loading |-> TRUE, error |-> NullMsg, applied |-> << >>]

\* SchoolSafety: selectedSchool, and the school clicked last
SchoolsInitial ==
  [page |-> "schools", clicked |-> None, selectedSchool |-> NoSchool, applied |-> << >>]

\* the fetches of Analytics.loadAllData
AnalyticsFetches == { "years", "monthly", "hourly", "daily", "police", "vehicles" }

\* the years of the year filter of Analytics ('' is All Years)
AnalyticsYears == { "", "2023" }

\* the years getBulkYearSummary asks for, whatever the filter says
BulkYears == "2020,2021,2022,2023,2024"

AnalyticsUrl(f) == << "/", "analytics", "/", f >>

\* Analytics: useState() initial values, the effect not yet run
AnalyticsInitial ==
  [page |-> "analytics", mounted |-> FALSE, selectedYear |-> "",
   yearData |-> EmptyList, monthlyData |-> EmptyList, hourlyData |-> EmptyList,
   dailyData |-> EmptyList, policeData |-> EmptyList, vehicleData |-> EmptyList,
   loading |-> TRUE, applied |-> << >>]

\* Analytics.loadAllData up to the await
loadAllDataStart(v) == [v EXCEPT !.loading = TRUE]

\* loadAllData with the fetches awaited without a catch of their own: one
\* failure rejects Promise.all and nothing is applied
loadAllDataAllOrNothing(v, l) ==
  IF \A f \in AnalyticsFetches : l.got[f] = "ok"
  THEN [v EXCEPT
          !.yearData    = ListFor(BulkYears),
          !.monthlyData = ListFor(l.for),
          !.hourlyData  = ListFor(l.for),
          !.dailyData   = ListFor(l.for),
          !.policeData  = ListFor(l.for),
          !.vehicleData = ListFor(l.for),
          !.loading     = FALSE]
  ELSE [v EXCEPT !.loading = FALSE]

\* Analytics.loadAllData after the await: each fetch that failed was
\* replaced by [] in its own catch
loadAllDataDone(v, l) ==
  [v EXCEPT
     !.yearData    = IF l.got["years"] = "ok" THEN ListFor(BulkYears) ELSE EmptyList,
     !.monthlyData = IF l.got["monthly"] = "ok" THEN ListFor(l.for) ELSE EmptyList,
     !.hourlyData  = IF l.got["hourly"] = "ok" THEN ListFor(l.for) ELSE EmptyList,
     !.dailyData   = IF l.got["daily"] = "ok" THEN ListFor(l.for) ELSE EmptyList,
     !.policeData  = IF l.got["police"] = "ok" THEN ListFor(l.for) ELSE EmptyList,
     !.vehicleData = IF l.got["vehicles"] = "ok" THEN ListFor(l.for) ELSE EmptyList,
     !.loading     = FALSE]

ViewsIdle ==
  /\ view = NoView
  /\ loads = {}
  /\ nextLoad = 0

\* Hotspots.loadData up to the await
loadDataStart(v) == [v EXCEPT !.loading = TRUE, !.error = NullMsg]

\* loadData with the fetches awaited without a catch of their own: one
\* failure rejects Promise.all, the catch sets the error and empties the
\* hotspots
loadDataAllOrNothing(v, l) ==
  IF \A f \in Fetches : l.got[f] = "ok"
  THEN [v EXCEPT !.hotspots    = ListFor(l.for),
                 !.heatmapData = ListFor(l.for),
                 !.conditions  = ListFor(l.for),
                 !.loading     = FALSE]
  ELSE [v EXCEPT !.error = Str("Request failed"), !.hotspots = EmptyList,
                 !.loading = FALSE]

\* loadData applying the responses only when they are for the year that
\* is selected now
loadDataDoneIfCurrent(v, l) ==
  IF l.for = v.selectedYear
  THEN [v EXCEPT
          !.hotspots    = IF l.got["hotspots"] = "ok" THEN ListFor(l.for) ELSE EmptyList,
          !.heatmapData = IF l.got["heatmap"] = "ok" THEN ListFor(l.for) ELSE EmptyList,
          !.conditions  = IF l.got["conditions"] = "ok" THEN ListFor(l.for) ELSE NullData,
          !.loading     = FALSE]
  ELSE [v EXCEPT !.loading = FALSE]

\* Hotspots.loadData after the await: each fetch that failed was replaced
\* by its default in its own catch
loadDataDone(v, l) ==
  [v EXCEPT
     !.hotspots    = IF l.got["hotspots"] = "ok" THEN ListFor(l.for) ELSE EmptyList,
     !.heatmapData = IF l.got["heatmap"] = "ok" THEN ListFor(l.for) ELSE EmptyList,
     !.conditions  = IF l.got["conditions"] = "ok" THEN ListFor(l.for) ELSE NullData,
     !.loading     = FALSE]

\* handleSelectSchool after the await: the detail of the response, or the
\* record of the list when the fetch failed
handleSelectSchoolDone(v, l) ==
  [v EXCEPT !.selectedSchool = [urn |-> l.for, detail |-> l.got["detail"] = "ok"]]

\* ------------------------------------------------- pages: AccidentMap
\* useDebounce(searchNearby, 300)
DebounceDelay == 300

\* the step of the clock (ms)
TickMs == 100

\* the points of the map a click can hit
Points == { "p1", "p2" }

\* timeoutRef.current before the first call (null); the ids setTimeout
\* returns are positive
NoTimer == 0

NearbyUrl == << "/", "accidents", "/", "nearby" >>

\* AccidentMap: useState() / useRef() initial values; no timer is set and
\* the clock is at 0
NoMap ==
  [center |-> "London", loading |-> FALSE, accidents |-> EmptyList,
   searchLocation |-> None, searches |-> {},
   timeoutRef |-> NoTimer, timers |-> {}, nextTimer |-> 1, now |-> 0]

NoHist == [calls |-> << >>, runs |-> << >>]

MapIdle ==
  /\ amap = NoMap
  /\ hist = NoHist

\* the severities of an accident: 1 fatal, 2 serious, 3 slight
Severities == 1..3

\* nothing rendered on the map
NoMarkers == [accidents |-> << >>, maxVisible |-> 0, visible |-> << >>, rendered |-> FALSE]

\* [...list].sort((a, b) => a.severity - b.severity): x goes behind the
\* elements that do not compare greater (the sort is stable)
RECURSIVE InsertBySeverity(_, _)
InsertBySeverity(sorted, x) ==
  IF sorted = << >> THEN << x >>
  ELSE IF sorted[Len(sorted)].severity - x.severity > 0
       THEN Append(InsertBySeverity(SubSeq(sorted, 1, Len(sorted) - 1), x),
                   sorted[Len(sorted)])
       ELSE Append(sorted, x)

RECURSIVE SortBySeverity(_)
SortBySeverity(list) ==
  IF list = << >> THEN << >>
  ELSE InsertBySeverity(SortBySeverity(SubSeq(list, 1, Len(list) - 1)), list[Len(list)])

\* slice(0, n)
Slice(list, n) == SubSeq(list, 1, IF n < Len(list) THEN n ELSE Len(list))

\* useVisibleMarkers sorting the list it is given instead of a copy
useVisibleMarkersInPlace(accidents, maxVisible) ==
  IF Len(accidents) <= maxVisible
  THEN [accidents |-> accidents, visible |-> accidents]
  ELSE [accidents |-> SortBySeverity(accidents),
        visible   |-> Slice(SortBySeverity(accidents), maxVisible)]

\* useVisibleMarkers taking the first maxVisible without the sort
useVisibleMarkersUnsorted(accidents, maxVisible) ==
  IF Len(accidents) <= maxVisible
  THEN [accidents |-> accidents, visible |-> accidents]
  ELSE [accidents |-> accidents, visible |-> Slice(accidents, maxVisible)]

\* AccidentMap: useVisibleMarkers; the list given, as the call leaves
\* it, and the list returned
useVisibleMarkers(accidents, maxVisible) ==
  IF Len(accidents) <= maxVisible
  THEN [accidents |-> accidents, visible |-> accidents]
  ELSE [accidents |-> accidents,
        visible   |-> Slice(SortBySeverity(accidents), maxVisible)]

\* Dashboard: useState() initial values, the effect not yet run, no load
NoDash ==
  [mounted |-> FALSE, loading |-> TRUE, selectedYear |-> "all", summary |-> NullData,
   timeSeries |-> EmptyList, hourlyPatterns |-> EmptyList, apiStatus |-> "loading",
   error |-> NullMsg, loads |-> {}, nextLoad |-> 0,
   settled |-> << >>, finished |-> << >>]

\* the years of the year filter of Dashboard
DashYears == { "all", "2023" }

\* the fetches of loadDashboardData in the order of the code
DashOrder == << "health", "summary", "timeSeries", "hourly" >>

SummaryUrl    == << "/", "analytics", "/", "summary" >>
TimeSeriesUrl == << "/", "analytics", "/", "timeseries" >>
HourlyUrl     == << "/", "analytics", "/", "patterns", "/", "hourly" >>

DashUrl(f) ==
  CASE f = "summary"    -> SummaryUrl
    [] f = "timeSeries" -> TimeSeriesUrl
    [] f = "hourly"     -> HourlyUrl

\* getHealth uses axios itself, not the instance with the interceptors
ThroughInstance(f) == f # "health"

DashFailed == Str("Failed to load data. Make sure the API is running.")

\* loadDashboardData up to the first await: getHealth() is issued
loadDashboardDataStart(d) ==
  [d EXCEPT !.loading  = TRUE,
            !.error    = NullMsg,
            !.loads    = @ \cup { [id |-> d.nextLoad, year |-> d.selectedYear,
                                   awaiting |-> "health", issued |-> << "health" >>] },
            !.nextLoad = @ + 1]

\* the load goes on to its next await
DashAwait(d, l, f) ==
  [d EXCEPT !.loads = (@ \ {l}) \cup { [l EXCEPT !.awaiting = f, !.issued = Append(@, f)] }]

\* the load ends: finally { setLoading(false) }
DashFinally(d, l) ==
  [d EXCEPT !.loading = FALSE, !.loads = @ \ {l}, !.finished = << l >>]

\* the outer catch
DashCatch(d, l) ==
  DashFinally([d EXCEPT !.error = DashFailed, !.apiStatus = "error"], l)

\* loadDashboardData with the time series and the hourly patterns
\* awaited without a try of their own
loadDashboardDataOneTry(d, l, ok) ==
  CASE l.awaiting = "health" ->
         IF ok THEN DashAwait([d EXCEPT !.apiStatus = "healthy"], l, "summary")
         ELSE DashCatch(d, l)
    [] l.awaiting = "summary" ->
         IF ok THEN DashAwait([d EXCEPT !.summary = ListFor(l.year)], l, "timeSeries")
         ELSE DashCatch(d, l)
    [] l.awaiting = "timeSeries" ->
         IF ok THEN DashAwait([d EXCEPT !.timeSeries = ListFor(l.year)], l, "hourly")
         ELSE DashCatch(d, l)
    [] l.awaiting = "hourly" ->
         IF ok THEN DashFinally([d EXCEPT !.hourlyPatterns = ListFor(l.year)], l)
         ELSE DashCatch(d, l)

\* loadDashboardData after an await: the response of the fetch the load
\* was awaiting has arrived
loadDashboardDataResume(d, l, ok) ==
  CASE l.awaiting = "health" ->
         IF ok THEN DashAwait([d EXCEPT !.apiStatus = "healthy"], l, "summary")
         ELSE DashCatch(d, l)
    [] l.awaiting = "summary" ->
         IF ok THEN DashAwait([d EXCEPT !.summary = ListFor(l.year)], l, "timeSeries")
         ELSE DashCatch(d, l)
    [] l.awaiting = "timeSeries" ->
         DashAwait([d EXCEPT !.timeSeries = IF ok THEN ListFor(l.year) ELSE EmptyList],
                   l, "hourly")
    [] l.awaiting = "hourly" ->
         DashFinally([d EXCEPT !.hourlyPatterns = IF ok THEN ListFor(l.year)
                                                  ELSE EmptyList], l)

ToolsIdle ==
  /\ MapIdle
  /\ markers = NoMarkers
  /\ dash = NoDash

\* clearTimeout(id): a timer that has fired or was cleared is no longer
\* in the list, and clearing it does nothing
clearTimeout(timers, id) == { t \in timers : t.id # id }

\* the function useDebounce returns, without the clearTimeout
debouncedNoClear(m, args) ==
  [m EXCEPT !.timers     = @ \cup { [id |-> m.nextTimer, due |-> m.now + DebounceDelay,
                                     args |-> args] },
            !.timeoutRef = m.nextTimer,
            !.nextTimer  = @ + 1]

\* the function useDebounce returns
debounced(m, args) ==
  LET kept == IF m.timeoutRef # NoTimer THEN clearTimeout(m.timers, m.timeoutRef)
              ELSE m.timers
  IN [m EXCEPT !.timers     = kept \cup { [id |-> m.nextTimer,
                                           due |-> m.now + DebounceDelay,
                                           args |-> args] },
               !.timeoutRef = m.nextTimer,
               !.nextTimer  = @ + 1]

\* searchNearby(lat, lng) up to the await
searchNearbyStart(m, id, at) ==
  [m EXCEPT !.loading = TRUE, !.searches = @ \cup { [id |-> id, at |-> at] }]

\* searchNearby after the await
searchNearbyDone(m, s, ok) ==
  [m EXCEPT !.accidents      = IF ok THEN ListFor(s.at) ELSE EmptyList,
            !.searchLocation = IF ok THEN s.at ELSE @,
            !.loading        = FALSE,
            !.searches       = @ \ {s}]

\* a record as the server sends it
Record(kind, count, score, category) ==
  [kind |-> kind, accident_count |-> count, risk_score |-> score,
   risk_category |-> category]

NoRecord == Record(None, Missing, Missing, None)
NothingShown == [marker |-> None, row |-> None, card |-> None, level |-> None]

\* no page is open
PagesIdle ==
  /\ rec = NoRecord
  /\ shown = NothingShown
  /\ form = NoForm
  /\ ViewsIdle
  /\ ToolsIdle

\* ---------------------------------------------------------------- actions
\* The entries an earlier visit that ended logged in left behind
StoredSession(t, p) == [token |-> t, user |-> Stringify(p), api_key |-> p.api_key]

\* The page is loaded: localStorage is empty or holds the session of an
\* earlier visit; the provider's state has its useState() initial values.
Init ==
  /\ storage \in {EmptyStorage} \cup { StoredSession(t, p) : t \in Tokens, p \in Profiles }
  /\ defaultAuth = None
  /\ user = NullUser
  /\ loading = TRUE
  /\ error = NullMsg
  /\ redirect = FALSE
  /\ mounted = FALSE
  /\ inflight = {}
  /\ nextId = 0
  /\ last = Plain("init")
  /\ PagesIdle

\* api.get / api.post / api.put: the request leaves with the headers the
\* request interceptor gave it
Request(op, url, st) ==
  [id |-> nextId, op |-> op, url |-> url, headers |-> RequestInterceptor(st, url)]

Send(op, url, st) ==
  /\ nextId < MaxRequests
  /\ inflight' = inflight \cup { Request(op, url, st) }
  /\ nextId' = nextId + 1

Called(op, url, st) ==
  Event("call", op, url, 0, Undefined, NoBody, RequestInterceptor(st, url), None, NullMsg)

Settled(r, out, res) ==
  [Event("settled", r.op, r.url, out.status, out.detail, out.body, r.headers,
         res.success, res.error)
     EXCEPT !.promise = res.promise]

\* useEffect(() => {...}, []) of AuthProvider
Mount ==
  /\ UNCHANGED pageVars
  /\ ~mounted
  /\ LET m == MountEffect(Cur)
     IN /\ Becomes(m.st)
        /\ IF m.verify
           THEN Send("verifyToken", VerifyUrl, m.st)
           ELSE UNCHANGED << inflight, nextId >>
  /\ loading' = FALSE
  /\ mounted' = TRUE
  /\ last' = Plain("mount")

\* The document is unloaded and loaded again (the pending navigation to
\* /login, or a reload by the user): localStorage survives, the provider's
\* state and the axios instance are constructed anew, and the responses of
\* the requests in flight are never delivered.
Reload ==
  /\ UNCHANGED pageVars
  /\ mounted
  /\ nextId < MaxRequests
  /\ defaultAuth' = None
  /\ user' = NullUser
  /\ loading' = TRUE
  /\ error' = NullMsg
  /\ redirect' = FALSE
  /\ mounted' = FALSE
  /\ inflight' = {}
  /\ last' = Plain("reload")
  /\ UNCHANGED << storage, nextId >>

\* login(email, password) up to the await
CallLogin ==
  /\ UNCHANGED pageVars
  /\ mounted
  /\ LET st == [Cur EXCEPT !.error = NullMsg]
     IN /\ Becomes(st)
        /\ Send("login", LoginUrl, st)
        /\ last' = Called("login", LoginUrl, st)
  /\ UNCHANGED << loading, mounted >>

\* signup(email, password, name) up to the await
CallSignupSession ==
  /\ mounted
  /\ LET st == [Cur EXCEPT !.error = NullMsg]
     IN /\ Becomes(st)
        /\ Send("signup", SignupUrl, st)
        /\ last' = Called("signup", SignupUrl, st)
  /\ UNCHANGED << loading, mounted >>

CallSignup ==
  /\ UNCHANGED pageVars
  /\ CallSignupSession

\* updateProfile(updates) up to the await; the profile pages are shown to
\* an authenticated user
CallUpdateProfile ==
  /\ UNCHANGED pageVars
  /\ mounted
  /\ user # NullUser
  /\ Send("updateProfile", ProfileUrl, Cur)
  /\ last' = Called("updateProfile", ProfileUrl, Cur)
  /\ UNCHANGED << storage, defaultAuth, user, loading, error, redirect, mounted >>

\* regenerateApiKey() up to the await (Usage.handleRegenerateKey)
CallRegenerateApiKey ==
  /\ UNCHANGED pageVars
  /\ mounted
  /\ user # NullUser
  /\ Send("regenerateApiKey", RegenerateUrl, Cur)
  /\ last' = Called("regenerateApiKey", RegenerateUrl, Cur)
  /\ UNCHANGED << storage, defaultAuth, user, loading, error, redirect, mounted >>

\* a view fetches data (getSchools, Usage.fetchData, ...)
CallData ==
  /\ UNCHANGED pageVars
  /\ mounted
  /\ \E url \in DataUrls :
       /\ Send("data", url, Cur)
       /\ last' = Called("data", url, Cur)
  /\ UNCHANGED << storage, defaultAuth, user, loading, error, redirect, mounted >>

\* the Sign out button: logout()
Logout ==
  /\ UNCHANGED pageVars
  /\ mounted
  /\ Becomes(logout(Cur))
  /\ last' = Plain("logout")
  /\ UNCHANGED << loading, mounted, inflight, nextId >>

\* A response arrives (or the request fails): the response interceptor and
\* then the continuation of the function that awaits the request.
SettleSession(r, out, res) ==
  /\ Becomes(res.st)
  /\ inflight' = inflight \ {r}
  /\ last' = Settled(r, out, res)
  /\ UNCHANGED << loading, mounted, nextId >>

Settle(r, out, res) ==
  /\ UNCHANGED pageVars
  /\ SettleSession(r, out, res)

SettleLogin ==
  \E r \in inflight : \E out \in AuthOutcomes :
    r.op = "login" /\ Settle(r, out, login(Cur, out))

SettleSignup ==
  \E r \in inflight : \E out \in AuthOutcomes :
    r.op = "signup" /\ Settle(r, out, signup(Cur, out))

SettleVerifyToken ==
  \E r \in inflight : \E out \in PlainOutcomes :
    r.op = "verifyToken" /\ Settle(r, out, verifyToken(Cur, out))

SettleUpdateProfile ==
  \E r \in inflight : \E out \in ProfileOutcomes :
    r.op = "updateProfile" /\ Settle(r, out, updateProfile(Cur, out))

SettleRegenerateApiKey ==
  \E r \in inflight : \E out \in ProfileOutcomes :
    r.op = "regenerateApiKey" /\ Settle(r, out, regenerateApiKey(Cur, out))

SettleData ==
  \E r \in inflight : \E out \in PlainOutcomes :
    r.op = "data" /\ Settle(r, out, dataFetch(Cur, r.url, out))

Next ==
  \/ Mount
  \/ Reload
  \/ CallLogin
  \/ CallSignup
  \/ CallUpdateProfile
  \/ CallRegenerateApiKey
  \/ CallData
  \/ Logout
  \/ SettleLogin
  \/ SettleSignup
  \/ SettleVerifyToken
  \/ SettleUpdateProfile
  \/ SettleRegenerateApiKey
  \/ SettleData

Spec == Init /\ [][Next]_vars

\* ---------------------------------------------- the request interceptor
\* A mounted page and any content of localStorage and of the default
\* header: localStorage is shared by the tabs of the origin, so its entries
\* may have been written or removed by another tab.
InitAnyStorage ==
  /\ storage \in [ token   : Tokens \cup {None},
                   user    : { Stringify(p) : p \in Profiles } \cup {None},
                   api_key : { p.api_key : p \in Profiles } \cup {None} ]
  /\ defaultAuth \in Tokens \cup {None}
  /\ user \in Profiles \cup {NullUser}
  /\ loading = FALSE
  /\ error = NullMsg
  /\ redirect = FALSE
  /\ mounted = TRUE
  /\ inflight = {}
  /\ nextId = 0
  /\ last = Plain("init")
  /\ PagesIdle

\* A tab in which the provider has mounted over the session of an
\* earlier visit and the token was verified: the user is logged in and
\* nothing is in flight.
InitLoggedIn ==
  /\ storage \in { StoredSession(t, p) : t \in Tokens, p \in Profiles }
  /\ defaultAuth = storage.token
  /\ user = Parse(storage.user)
  /\ loading = FALSE
  /\ error = NullMsg
  /\ redirect = FALSE
  /\ mounted = TRUE
  /\ inflight = {}
  /\ nextId = 0
  /\ last = Plain("init")
  /\ PagesIdle

SpecLoggedIn == InitLoggedIn /\ [][Next]_vars

NextRequests ==
  \/ CallLogin
  \/ CallSignup
  \/ CallUpdateProfile
  \/ CallRegenerateApiKey
  \/ CallData

SpecRequests == InitAnyStorage /\ [][NextRequests]_vars

\* =====================================================================
\* Properties
\* =====================================================================
Present(v) == v # None

AllPresent(store) ==
  Present(store.token) /\ Present(store.user) /\ Present(store.api_key)

\* the last handler was the response interceptor tearing the session down
TornDown ==
  last.ev = "settled" /\ last.status = 401 /\ ~IsAuthEndpoint(last.url)

AuthOps == { "login", "signup" }

\* C1: the three persisted entries are all present or all absent; the token
\* and the API key are never held one without the other.
C1_AllOrNothing ==
  AllPresent(storage) \/ storage = EmptyStorage

\* C2: a 401 for a request that is no login / signup request removes token,
\* user and api_key in one step: when the handler has run none of the three
\* is left, whatever was stored before.
C2_TeardownClearsAllThree ==
  TornDown => storage = EmptyStorage

C2_Witness ==
  TornDown /\ AllPresent(last.before.storage) /\ storage = EmptyStorage

\* C3: a 401 to /users/login or /users/signup leaves the stored session as
\* it was; a 401 to GET /schools clears it.
C3_AuthEndpoint401KeepsSession ==
  /\ (last.ev = "settled" /\ last.status = 401 /\ last.op \in AuthOps)
       => storage = last.before.storage
  /\ (last.ev = "settled" /\ last.status = 401 /\ last.url = SchoolsUrl)
       => storage = EmptyStorage

C3_Witness ==
  /\ last.ev = "settled" /\ last.status = 401 /\ last.op = "signup"
  /\ AllPresent(last.before.storage)
  /\ storage = last.before.storage

\* C4: when login or signup returns {success: true}, the stored token is
\* the response's access_token, the stored profile reads back as the
\* response's user, and the stored api_key is that user's api_key.
C4_SuccessStoresConsistentSession ==
  (last.ev = "settled" /\ last.op \in AuthOps /\ last.success = "true")
    => /\ AllPresent(storage)
       /\ storage.token = last.body.access_token
       /\ CanParse(storage.user) /\ Parse(storage.user) = last.body.user
       /\ storage.api_key = last.body.user.api_key

C4_Witness ==
  /\ last.ev = "settled" /\ last.op = "login" /\ last.success = "true"
  /\ AllPresent(last.before.storage)
  /\ last.before.storage.api_key # last.body.user.api_key
  /\ last.before.storage.token # last.body.access_token

\* C5: logout leaves no token, no profile, no api_key, no default
\* Authorization header and a null user; logout from that state changes
\* nothing.
C5_LogoutClearsEverything ==
  last.ev = "logout"
    => /\ storage = EmptyStorage
       /\ defaultAuth = None
       /\ user = NullUser
       /\ logout(Cur) = Cur

C5_Witness ==
  /\ last.ev = "logout"
  /\ AllPresent(last.before.storage)
  /\ Present(last.before.defaultAuth)
  /\ last.before.user # NullUser

RegenerateSettled == last.ev = "settled" /\ last.op = "regenerateApiKey"

\* what regenerateApiKey does when the request succeeds
RegenerateSuccess ==
  (RegenerateSettled /\ last.status = 200)
    => /\ last.success = "true"
       /\ storage.api_key = last.body.user.api_key
       /\ storage.user = Stringify(last.body.user)
       /\ storage.token = last.before.storage.token

\* C6 as stated: on success regenerateApiKey replaces the stored api_key
\* and profile by the response's and leaves the token; on every failure,
\* a 401 included, it returns {success: false, error} and the stored
\* entries are as before.
C6_FailureNeverMutates ==
  /\ RegenerateSuccess
  /\ (RegenerateSettled /\ last.status # 200)
       => last.success = "false" /\ storage = last.before.storage

\* C6 amended: on a failure other than a 401 response the stored entries
\* are as before; on a 401 response the response interceptor has removed
\* all three and signalled the redirect; either way the result is
\* {success: false, error}.
C6_FailureMutatesOnlyOn401 ==
  /\ RegenerateSuccess
  /\ (RegenerateSettled /\ last.status # 200) => last.success = "false"
  /\ (RegenerateSettled /\ last.status \notin {200, 401})
       => storage = last.before.storage
  /\ (RegenerateSettled /\ last.status = 401)
       => storage = EmptyStorage /\ redirect

C6_Witness ==
  /\ RegenerateSettled /\ last.status = 401
  /\ AllPresent(last.before.storage)
  /\ storage = EmptyStorage

\* some entry that was stored when the last handler started is gone
Destroyed ==
  \E k \in {"token", "user", "api_key"} :
    Present(last.before.storage[k]) /\ ~Present(storage[k])

\* C7: the stored session is destroyed only by the Sign out action or by a
\* 401 response to a request that is no login / signup request; a network
\* failure, a timeout or another error status destroys nothing.
C7_DestroyedOnlyByLogoutOr401 ==
  Destroyed => (last.ev = "logout" \/ TornDown)

\* C8: after a 401-triggered teardown it is never the case that the stored
\* token is cleared while the in-memory user (isAuthenticated) is present.
C8_NoHalfUpdatedSession ==
  TornDown => ~(storage.token = None /\ user # NullUser)

\* a human-readable detail string is there
HasDetailString(d) == d.kind = "string" /\ d.text # ""

GenericMessage(op) == IF op = "login" THEN Str("Login failed") ELSE Str("Signup failed")

\* C9: every outcome of login and signup is a result value, {success: true}
\* or {success: false, error}, and error is the detail string of the
\* response body when there is one and the generic message otherwise
\* (network failures included).
C9_ErrorIsDetailStringOrGeneric ==
  (last.ev = "settled" /\ last.op \in AuthOps)
    => /\ last.success \in {"true", "false"}
       /\ last.success = "false"
            => last.error = IF last.status # NetworkFailure /\ HasDetailString(last.detail)
                            THEN last.detail
                            ELSE GenericMessage(last.op)

\* C10: a request carries X-API-Key only if an api_key is stored and its URL
\* does not contain '/users/'; no request to a user-account endpoint
\* carries it.
C10_ApiKeyOnlyOffUserEndpoints ==
  /\ \A r \in inflight :
       Present(r.headers.XApiKey) => ~Includes(r.url, UsersPath)
  /\ last.ev = "call"
       => /\ last.headers \in { r.headers : r \in inflight }
          /\ Present(last.headers.XApiKey)
               => /\ Truthy(storage.api_key)
                  /\ last.headers.XApiKey = storage.api_key
                  /\ ~Includes(last.url, UsersPath)

C10_Witness ==
  /\ Truthy(storage.api_key)
  /\ \E r \in inflight :
       r.url = UsageUrl /\ ~Present(r.headers.XApiKey)

\* C11: the request interceptor sets Authorization to the stored token
\* exactly when a token is stored and the request has no Authorization
\* header yet; a header already present is left as it is; with nothing
\* stored the request leaves without credentials.
C11_BearerOnlyWhenNoHeaderYet ==
  last.ev = "call"
    => LET b == last.before
           attach == Truthy(b.storage.token) /\ ~Present(b.defaultAuth)
       IN /\ attach => last.headers.Authorization = b.storage.token
          /\ ~attach => last.headers.Authorization = b.defaultAuth
          /\ (~Present(b.storage.token) /\ ~Present(b.storage.api_key)
                /\ ~Present(b.defaultAuth)) => last.headers = NoHeaders
          /\ \E r \in inflight : r.url = last.url /\ r.headers = last.headers

C11_Witness ==
  /\ last.ev = "call"
  /\ Present(last.before.storage.token)
  /\ ~Present(last.before.defaultAuth)
  /\ last.headers.Authorization = last.before.storage.token

DataSettled == last.ev = "settled" /\ last.op = "data"

\* C12: the response interceptor hands a successful response on as it is
\* and rejects every failure again with the error it got, so a failed data
\* fetch (a 401 included) reaches the view as a rejection; a failure other
\* than a 401 leaves the stored session as it was.
C12_FailuresReachTheCaller ==
  DataSettled
    => /\ last.promise.state = IF last.status = 200 THEN "fulfilled" ELSE "rejected"
       /\ last.promise.value = Outcome(last.status, last.detail, last.body)
       /\ last.status \notin {200, 401} => storage = last.before.storage

C12_Witness ==
  /\ DataSettled /\ last.status = 401
  /\ last.promise.state = "rejected"
  /\ AllPresent(last.before.storage)
  /\ storage = EmptyStorage

\* C13: the redirect to the login view is signalled exactly when a
\* response fails with 401 and its request was no login / signup request:
\* always together with the teardown, never for a 401 from login / signup
\* and never for another failure.
C13_RedirectExactlyOnTeardown ==
  /\ TornDown => redirect /\ storage = EmptyStorage
  /\ (last.ev # "reload" /\ ~TornDown) => redirect = last.before.redirect

C13_Witness ==
  TornDown /\ redirect /\ ~last.before.redirect /\ AllPresent(last.before.storage)

\* C20: on mount the provider restores a session only when a token and a
\* profile are both stored: when the profile parses it sets the user and
\* the default Authorization header and issues the verify-token request;
\* when it does not parse it performs logout; when either is missing it
\* restores nothing; loading is false afterwards in every case.
C20_MountRestoresSession ==
  last.ev = "mount"
    => LET b == last.before
       IN /\ loading = FALSE
          /\ IF Truthy(b.storage.token) /\ Truthy(b.storage.user)
             THEN IF CanParse(b.storage.user)
                  THEN /\ user = Parse(b.storage.user)
                       /\ defaultAuth = b.storage.token
                       /\ storage = b.storage
                       /\ \E r \in inflight :
                            /\ r.url = VerifyUrl
                            /\ r.headers.Authorization = b.storage.token
                  ELSE /\ storage = EmptyStorage
                       /\ user = NullUser
                       /\ defaultAuth = None
                       /\ inflight = {}
             ELSE /\ storage = b.storage
                  /\ user = NullUser
                  /\ defaultAuth = None
                  /\ inflight = {}

C20_Witness ==
  /\ last.ev = "mount"
  /\ Present(last.before.storage.token)
  /\ Present(last.before.storage.user)
  /\ ~CanParse(last.before.storage.user)
  /\ storage = EmptyStorage

\* ------------------------------------------- the pages render a record
\* The gateway at rest: nobody logged in, nothing in flight.
AuthIdle ==
  /\ storage = EmptyStorage
  /\ defaultAuth = None
  /\ user = NullUser
  /\ loading = FALSE
  /\ error = NullMsg
  /\ redirect = FALSE
  /\ mounted = TRUE
  /\ inflight = {}
  /\ nextId = 0
  /\ last = Plain("init")

\* the categories a server may send with a hotspot
ServerCategories == { None, "Low", "Critical" }

\* The records a response may hold: a school with its accident count, a
\* hotspot with its count, its score and possibly a category.
InitRisk ==
  /\ AuthIdle
  /\ rec \in { Record("school", c, Missing, None) : c \in {Missing} \cup 0..MaxCount }
           \cup { Record("hotspot", c, sc, cat) :
                    c \in {Missing} \cup 0..MaxCount,
                    sc \in {Missing} \cup 0..MaxScore,
                    cat \in ServerCategories }
  /\ shown = NothingShown
  /\ form = NoForm
  /\ ViewsIdle
  /\ ToolsIdle

\* Hotspots renders a hotspot: marker, table row, summary cards
RenderHotspot ==
  /\ rec.kind = "hotspot"
  /\ shown = NothingShown
  /\ shown' = [shown EXCEPT !.marker = MarkerCategory(rec),
                            !.row    = RowCategory(rec),
                            !.card   = CardCategory(rec)]
  /\ UNCHANGED << authVars, rec, formVars, viewVars, toolVars >>

\* SchoolSafety renders a school
RenderSchool ==
  /\ rec.kind = "school"
  /\ shown = NothingShown
  /\ shown' = [shown EXCEPT !.level = SchoolLevel(rec)]
  /\ UNCHANGED << authVars, rec, formVars, viewVars, toolVars >>

NextRisk ==
  \/ RenderHotspot
  \/ RenderSchool

SpecRisk == InitRisk /\ [][NextRisk]_vars

\* ------------------------------------------------ the signup page
\* The signup page is open in a tab whose provider has mounted over an
\* empty localStorage or over the session of an earlier visit.
InitSignup ==
  /\ storage \in {EmptyStorage} \cup { StoredSession(t, p) : t \in Tokens, p \in Profiles }
  /\ defaultAuth = storage.token
  /\ user = IF storage.user = None THEN NullUser ELSE Parse(storage.user)
  /\ loading = FALSE
  /\ error = NullMsg
  /\ redirect = FALSE
  /\ mounted = TRUE
  /\ inflight = {}
  /\ nextId = 0
  /\ last = Plain("init")
  /\ PagesIdle

\* Signup: handleChange on one of the password fields
HandleChange ==
  /\ ~form.navigated
  /\ \E v \in Passwords :
       \/ v # form.password /\ form' = [form EXCEPT !.password = v]
       \/ v # form.confirmPassword /\ form' = [form EXCEPT !.confirmPassword = v]
  /\ last' = Plain("change")
  /\ UNCHANGED << storage, defaultAuth, user, loading, error, redirect, mounted,
                  inflight, nextId, riskVars, viewVars, toolVars >>

\* Signup: handleSubmit up to the await (the submit button is disabled
\* while isLoading)
HandleSubmit ==
  /\ ~form.navigated
  /\ ~form.isLoading
  /\ LET v == validateForm([form EXCEPT !.error = Str("")])
     IN IF ~v.ok
        THEN /\ form' = [form EXCEPT !.error = v.error]
             /\ last' = Plain("submit")
             /\ UNCHANGED << storage, defaultAuth, user, loading, error, redirect,
                             mounted, inflight, nextId >>
        ELSE /\ form' = [form EXCEPT !.error = Str(""), !.isLoading = TRUE]
             /\ CallSignupSession
  /\ UNCHANGED << riskVars, viewVars, toolVars >>

\* Signup: the response of the signup request arrives; handleSubmit
\* resumes with the result of signup()
SubmitSettled ==
  /\ \E r \in inflight : \E out \in AuthOutcomes :
       /\ r.op = "signup"
       /\ LET res == signup(Cur, out)
          IN /\ SettleSession(r, out, res)
             /\ form' = [form EXCEPT !.isLoading = FALSE,
                                     !.error = IF res.success = "true" THEN @ ELSE res.error,
                                     !.navigated = (res.success = "true")]
  /\ UNCHANGED << riskVars, viewVars, toolVars >>

NextSignup ==
  \/ HandleChange
  \/ HandleSubmit
  \/ SubmitSettled

SpecSignup == InitSignup /\ [][NextSignup]_vars

\* -------------------------------------------------------- the views
\* A view is open in a tab whose provider has mounted over the session
\* of an earlier visit.
InitViews ==
  /\ storage = StoredSession(CHOOSE t \in Tokens : TRUE, CHOOSE p \in Profiles : TRUE)
  /\ defaultAuth = storage.token
  /\ user = IF storage.user = None THEN NullUser ELSE Parse(storage.user)
  /\ loading = FALSE
  /\ error = NullMsg
  /\ redirect = FALSE
  /\ mounted = TRUE
  /\ inflight = {}
  /\ nextId = 0
  /\ last = Plain("init")
  /\ rec = NoRecord
  /\ shown = NothingShown
  /\ form = NoForm
  /\ view \in { HotspotsInitial, SchoolsInitial, AnalyticsInitial }
  /\ loads = {}
  /\ nextLoad = 0
  /\ ToolsIdle

\* what a fetch of a view may end with: a response, successful or not
FetchOutcomes == { Outcome(s, Undefined, NoBody) : s \in {200} \cup ErrorStatuses }

\* the view starts a load for a selection: one request per fetch
StartLoad(kind, sel, fetches) ==
  /\ nextLoad < MaxLoads
  /\ loads' = loads \cup { [id |-> nextLoad, kind |-> kind, for |-> sel,
                            got |-> [f \in fetches |-> Pending]] }
  /\ nextLoad' = nextLoad + 1

\* Hotspots: useEffect(() => { loadData() }, [selectedYear, limit]) after
\* the first render
HotspotsMounted ==
  /\ view.page = "hotspots"
  /\ ~view.mounted
  /\ view' = [loadDataStart(view) EXCEPT !.mounted = TRUE]
  /\ StartLoad("hotspots", view.selectedYear, Fetches)
  /\ UNCHANGED << authVars, riskVars, formVars, toolVars >>

\* Hotspots: the year filter changes; the effect runs loadData
SelectYear ==
  /\ view.page = "hotspots"
  /\ view.mounted
  /\ \E y \in Years :
       /\ y # view.selectedYear
       /\ view' = [loadDataStart(view) EXCEPT !.selectedYear = y]
       /\ StartLoad("hotspots", y, Fetches)
  /\ UNCHANGED << authVars, riskVars, formVars, toolVars >>

\* Hotspots: the Refresh button (disabled while loading)
RefreshHotspots ==
  /\ view.page = "hotspots"
  /\ view.mounted
  /\ ~view.loading
  /\ view' = loadDataStart(view)
  /\ StartLoad("hotspots", view.selectedYear, Fetches)
  /\ UNCHANGED << authVars, riskVars, formVars, toolVars >>

\* the response of one fetch of a load arrives: the response interceptor
\* runs; when it was the last one awaited, the load resumes
Arrives(l, f, out, done) ==
  LET res == dataFetch(Cur, FetchUrl(f), out)
      l2  == [l EXCEPT !.got[f] = IF res.promise.state = "fulfilled"
                                  THEN "ok" ELSE "failed"]
  IN /\ l.got[f] = Pending
     /\ Becomes(res.st)
     /\ IF \A k \in DOMAIN l2.got : l2.got[k] # Pending
        THEN /\ view' = [IF done = "loadData" THEN loadDataDone(view, l2)
                         ELSE handleSelectSchoolDone(view, l2)
                           EXCEPT !.applied = << l2 >>]
             /\ loads' = loads \ {l}
        ELSE /\ view' = view
             /\ loads' = (loads \ {l}) \cup {l2}
     /\ UNCHANGED << loading, mounted, inflight, nextId, last, nextLoad,
                     riskVars, formVars, toolVars >>

\* Hotspots: a response of getHotspots, getHeatmapData or
\* getAccidentConditions arrives
HotspotsArrives ==
  \E l \in loads : \E f \in Fetches : \E out \in FetchOutcomes :
    l.kind = "hotspots" /\ Arrives(l, f, out, "loadData")

\* SchoolSafety: handleSelectSchool up to the await
SelectSchool ==
  /\ view.page = "schools"
  /\ \E u \in Urns :
       /\ view' = [view EXCEPT !.clicked = u]
       /\ StartLoad("detail", u, DetailFetch)
  /\ UNCHANGED << authVars, riskVars, formVars, toolVars >>

\* SchoolSafety: the response of getSchoolDetail arrives
DetailArrives ==
  \E l \in loads : \E out \in FetchOutcomes :
    l.kind = "detail" /\ Arrives(l, "detail", out, "handleSelectSchool")

\* Analytics: useEffect(() => { loadAllData() }, [loadAllData]) after the
\* first render
AnalyticsMounted ==
  /\ view.page = "analytics"
  /\ ~view.mounted
  /\ view' = [loadAllDataStart(view) EXCEPT !.mounted = TRUE]
  /\ StartLoad("analytics", view.selectedYear, AnalyticsFetches)
  /\ UNCHANGED << authVars, riskVars, formVars, toolVars >>

\* Analytics: the year filter changes; loadAllData is made anew and the
\* effect runs it
AnalyticsSelectYear ==
  /\ view.page = "analytics"
  /\ view.mounted
  /\ \E y \in AnalyticsYears :
       /\ y # view.selectedYear
       /\ view' = [loadAllDataStart(view) EXCEPT !.selectedYear = y]
       /\ StartLoad("analytics", y, AnalyticsFetches)
  /\ UNCHANGED << authVars, riskVars, formVars, toolVars >>

\* Analytics: the Refresh button (disabled while loading)
AnalyticsRefresh ==
  /\ view.page = "analytics"
  /\ view.mounted
  /\ ~view.loading
  /\ view' = loadAllDataStart(view)
  /\ StartLoad("analytics", view.selectedYear, AnalyticsFetches)
  /\ UNCHANGED << authVars, riskVars, formVars, toolVars >>

\* Analytics: the six responses of one load have arrived: those of `ok`
\* successful, the others failed, one of them with `status`. What
\* loadAllData applies does not depend on their order, and it applies it
\* after the last; the response interceptor has run on each of them.
AnalyticsArrives ==
  /\ \E l \in loads : \E ok \in SUBSET AnalyticsFetches : \E status \in ErrorStatuses :
       LET failed == AnalyticsFetches \ ok
           st == IF failed = {} THEN Cur
                 ELSE ResponseRejected(Cur, status, AnalyticsUrl(CHOOSE f \in failed : TRUE))
           l2 == [l EXCEPT !.got = [f \in AnalyticsFetches |->
                                      IF f \in ok THEN "ok" ELSE "failed"]]
       IN /\ l.kind = "analytics"
          /\ Becomes(st)
          /\ view' = [loadAllDataDone(view, l2) EXCEPT !.applied = << l2 >>]
          /\ loads' = loads \ {l}
  /\ UNCHANGED << loading, mounted, inflight, nextId, last, nextLoad,
                  riskVars, formVars, toolVars >>

NextViews ==
  \/ AnalyticsMounted
  \/ AnalyticsSelectYear
  \/ AnalyticsRefresh
  \/ AnalyticsArrives
  \/ HotspotsMounted
  \/ SelectYear
  \/ RefreshHotspots
  \/ HotspotsArrives
  \/ SelectSchool
  \/ DetailArrives

SpecViews == InitViews /\ [][NextViews]_vars

\* ------------------------------------------------------ AccidentMap
InitMap ==
  /\ storage \in { EmptyStorage,
                    StoredSession(CHOOSE t \in Tokens : TRUE, CHOOSE p \in Profiles : TRUE) }
  /\ defaultAuth = storage.token
  /\ user = IF storage.user = None THEN NullUser ELSE Parse(storage.user)
  /\ loading = FALSE
  /\ error = NullMsg
  /\ redirect = FALSE
  /\ mounted = TRUE
  /\ inflight = {}
  /\ nextId = 0
  /\ last = Plain("init")
  /\ rec = NoRecord
  /\ shown = NothingShown
  /\ form = NoForm
  /\ ViewsIdle
  /\ ToolsIdle

\* handleMapClick(latlng)
MapClick ==
  /\ Len(hist.calls) < MaxCalls
  /\ \E p \in Points :
       /\ amap' = debounced([amap EXCEPT !.center = p], p)
       /\ hist' = [hist EXCEPT !.calls = Append(@, [at |-> amap.now, args |-> p])]
  /\ UNCHANGED << authVars, riskVars, formVars, viewVars, markers, dash >>

\* time passes
Tick ==
  /\ amap.now + TickMs <= MaxTime
  /\ amap' = [amap EXCEPT !.now = @ + TickMs]
  /\ UNCHANGED << authVars, riskVars, formVars, viewVars, hist, markers, dash >>

\* a timer of setTimeout is due: its function calls searchNearby with the
\* arguments of the call that set it
TimerFires ==
  /\ \E t \in amap.timers :
       /\ amap.now >= t.due
       /\ amap' = searchNearbyStart([amap EXCEPT !.timers = @ \ {t}], t.id, t.args)
       /\ hist' = [hist EXCEPT !.runs = Append(@, [at |-> amap.now, args |-> t.args,
                                                   after |-> Len(hist.calls)])]
  /\ UNCHANGED << authVars, riskVars, formVars, viewVars, markers, dash >>

\* the response of getNearbyAccidents arrives
SearchArrives ==
  /\ \E s \in amap.searches : \E out \in PlainOutcomes :
       LET res == dataFetch(Cur, NearbyUrl, out)
       IN /\ Becomes(res.st)
          /\ amap' = searchNearbyDone(amap, s, res.promise.state = "fulfilled")
  /\ UNCHANGED << loading, mounted, inflight, nextId, last, riskVars, formVars,
                  viewVars, hist, markers, dash >>

NextMap ==
  \/ MapClick
  \/ Tick
  \/ TimerFires
  \/ SearchArrives

SpecMap == InitMap /\ [][NextMap]_vars

\* ------------------------------------- AccidentMap: the visible markers
\* the lists of accidents of a response: the id of an accident is its
\* place in the list
AccidentLists ==
  UNION { { [i \in 1..n |-> [id |-> i, severity |-> sev[i]]] : sev \in [1..n -> Severities] } :
          n \in 0..MaxLen }

InitMarkers ==
  /\ AuthIdle
  /\ rec = NoRecord
  /\ shown = NothingShown
  /\ form = NoForm
  /\ ViewsIdle
  /\ MapIdle
  /\ dash = NoDash
  /\ markers \in { [accidents |-> a, maxVisible |-> m, visible |-> << >>, rendered |-> FALSE] :
                     a \in AccidentLists, m \in 0..MaxLen }

\* AccidentMap renders: useVisibleMarkers(accidents, maxVisible)
RenderMarkers ==
  /\ ~markers.rendered
  /\ LET r == useVisibleMarkers(markers.accidents, markers.maxVisible)
     IN markers' = [markers EXCEPT !.accidents = r.accidents,
                                   !.visible   = r.visible,
                                   !.rendered  = TRUE]
  /\ UNCHANGED << authVars, riskVars, formVars, viewVars, mapVars, dash >>

NextMarkers == RenderMarkers

SpecMarkers == InitMarkers /\ [][NextMarkers]_vars

\* -------------------------------------------------------- Dashboard
InitDash ==
  /\ storage \in { EmptyStorage,
                    StoredSession(CHOOSE t \in Tokens : TRUE, CHOOSE p \in Profiles : TRUE) }
  /\ defaultAuth = storage.token
  /\ user = IF storage.user = None THEN NullUser ELSE Parse(storage.user)
  /\ loading = FALSE
  /\ error = NullMsg
  /\ redirect = FALSE
  /\ mounted = TRUE
  /\ inflight = {}
  /\ nextId = 0
  /\ last = Plain("init")
  /\ rec = NoRecord
  /\ shown = NothingShown
  /\ form = NoForm
  /\ ViewsIdle
  /\ ToolsIdle

\* Dashboard: useEffect(() => { loadDashboardData() }, [selectedYear])
\* after the first render
DashMounted ==
  /\ ~dash.mounted
  /\ dash.nextLoad < MaxLoads
  /\ dash' = loadDashboardDataStart([dash EXCEPT !.mounted = TRUE])
  /\ UNCHANGED << authVars, riskVars, formVars, viewVars, mapVars, markers >>

\* Dashboard: the year filter changes; the effect runs loadDashboardData.
\* The filter is rendered only when neither loading nor error is set.
DashSelectYear ==
  /\ dash.mounted
  /\ ~dash.loading
  /\ dash.error = NullMsg
  /\ dash.nextLoad < MaxLoads
  /\ \E y \in DashYears :
       /\ y # dash.selectedYear
       /\ dash' = loadDashboardDataStart([dash EXCEPT !.selectedYear = y])
  /\ UNCHANGED << authVars, riskVars, formVars, viewVars, mapVars, markers >>

\* Dashboard: the Retry button of the error page, the refresh button of
\* the page; neither is rendered while loading
DashRefresh ==
  /\ dash.mounted
  /\ ~dash.loading
  /\ dash.nextLoad < MaxLoads
  /\ dash' = loadDashboardDataStart(dash)
  /\ UNCHANGED << authVars, riskVars, formVars, viewVars, mapVars, markers >>

\* the response of the fetch a load is awaiting arrives
DashArrives ==
  /\ \E l \in dash.loads : \E out \in PlainOutcomes :
       LET res == IF ThroughInstance(l.awaiting)
                  THEN dataFetch(Cur, DashUrl(l.awaiting), out)
                  ELSE Result(Cur, None, NullMsg)
           ok  == out.status = 200
       IN /\ Becomes(res.st)
          /\ dash' = [loadDashboardDataResume(dash, l, ok)
                        EXCEPT !.settled = << [id |-> l.id, fetch |-> l.awaiting,
                                               ok |-> ok] >>]
  /\ UNCHANGED << loading, mounted, inflight, nextId, last, riskVars, formVars,
                  viewVars, mapVars, markers >>

NextDash ==
  \/ DashMounted
  \/ DashSelectYear
  \/ DashRefresh
  \/ DashArrives

SpecDash == InitDash /\ [][NextDash]_vars

\* ---------------------------------------------------- risk label claims
\* the ranges the risk filter of the school page names: 10+, 5-9, 0-4
InFilterRange(level, n) ==
  CASE level = "high"   -> n >= 10
    [] level = "medium" -> n >= 5 /\ n <= 9
    [] level = "low"    -> n >= 0 /\ n <= 4
    [] OTHER            -> FALSE

LevelRank(level) ==
  CASE level = "low" -> 0 [] level = "medium" -> 1 [] level = "high" -> 2

Categories == { "Low", "Moderate", "High", "Very High", "Critical" }

\* Low < Moderate < High < Very High < Critical
Rank(category) ==
  CASE category = "Low"       -> 0
    [] category = "Moderate"  -> 1
    [] category = "High"      -> 2
    [] category = "Very High" -> 3
    [] category = "Critical"  -> 4

SchoolShown == rec.kind = "school" /\ shown.level # None
HotspotShown == rec.kind = "hotspot" /\ shown.card # None

\* C14: a school with a non-negative accident count is labelled high
\* exactly when the count is at least 10, medium exactly when it is 5 to
\* 9 and low exactly when it is 0 to 4, which are the ranges the risk
\* filter names for the three levels.
C14_RiskLevelBands ==
  SchoolShown =>
    LET n == OrZero(rec.accident_count) IN
      /\ shown.level = "high"   <=> n >= 10
      /\ shown.level = "medium" <=> (n >= 5 /\ n <= 9)
      /\ shown.level = "low"    <=> (n >= 0 /\ n <= 4)
      /\ InFilterRange(shown.level, n)

\* a school with exactly ten accidents is shown as high
C14_Witness ==
  /\ SchoolShown
  /\ rec.accident_count = 10
  /\ shown.level = "high"

\* C15: both classifiers are monotonic: one more accident never lowers the
\* level of a school; one more accident with the score fixed, or one more
\* point of score with the count fixed, never lowers the category of a
\* hotspot. Every count and score of the range is rendered, so the steps
\* of one chain to every pair of the range.
C15_Monotonic ==
  /\ (SchoolShown /\ rec.accident_count # Missing) =>
        LevelRank(shown.level) <= LevelRank(getRiskLevel(rec.accident_count + 1))
  /\ (HotspotShown /\ rec.accident_count # Missing) =>
        Rank(shown.card) <= Rank(getRiskCategory(rec.risk_score, rec.accident_count + 1))
  /\ (HotspotShown /\ rec.risk_score # Missing) =>
        Rank(shown.card) <= Rank(getRiskCategory(rec.risk_score + 1, rec.accident_count))

\* a hotspot one accident below a minimum: the next accident raises it
C15_Witness ==
  /\ HotspotShown
  /\ rec.accident_count = 24
  /\ rec.risk_score # Missing
  /\ Rank(shown.card) < Rank(getRiskCategory(rec.risk_score, rec.accident_count + 1))

\* the minimum of a category is met by the count or by the score
MinimumMet(category, score, count) ==
  LET has(v, min) == v # Missing /\ v >= min IN
  CASE category = "Critical"  -> has(count, 100) \/ has(score, 200)
    [] category = "Very High" -> has(count, 50) \/ has(score, 100)
    [] category = "High"      -> has(count, 25) \/ has(score, 50)
    [] category = "Moderate"  -> has(count, 10) \/ has(score, 20)
    [] OTHER                  -> FALSE

\* C16: getRiskCategory returns the most severe category whose minimum
\* the count or the score meets (Critical 100 / 200, Very High 50 / 100,
\* High 25 / 50, Moderate 10 / 20) and Low when none is met; it returns a
\* category for every input, zero and a missing score included.
C16_MostSevereMinimumMet ==
  HotspotShown =>
    LET met == { c \in Categories : MinimumMet(c, rec.risk_score, rec.accident_count) } IN
      /\ shown.card \in Categories
      /\ IF met = {} THEN shown.card = "Low"
         ELSE /\ shown.card \in met
              /\ \A c \in met : Rank(c) <= Rank(shown.card)

\* the score alone makes a hotspot Critical whose count is only Moderate
C16_Witness ==
  /\ HotspotShown
  /\ rec.accident_count = 10
  /\ rec.risk_score = 200
  /\ shown.card = "Critical"

\* C17: every hotspot has the same category on its marker, in its table
\* row and in the summary cards.
C17_SameCategoryEverywhere ==
  HotspotShown =>
    /\ shown.marker = shown.row
    /\ shown.row = shown.card

\* ------------------------------------------------------- signup claims
FormInvalid == Len(form.password) < 8 \/ form.password # form.confirmPassword

\* a step of handleSubmit: it ends rejected by the validation or with
\* signup called
SubmitStep == last'.ev = "submit" \/ (last'.ev = "call" /\ last'.op = "signup")

\* C18: a submission of the signup form whose password is shorter than 8
\* characters or differs from the confirmation calls no signup, issues no
\* request and leaves the stored session as it was.
C18_InvalidFormStaysLocal ==
  [][ (SubmitStep /\ FormInvalid) =>
        /\ last'.ev = "submit"
        /\ inflight' = inflight
        /\ nextId' = nextId
        /\ storage' = storage
        /\ defaultAuth' = defaultAuth
        /\ user' = user ]_vars

\* a logged-in tab: a password of eight characters with another
\* confirmation was submitted, the form says so and nothing was sent
C18_Witness ==
  /\ last.ev = "submit"
  /\ Len(form.password) = 8
  /\ form.password # form.confirmPassword
  /\ form.error = Str("Passwords do not match")
  /\ AllPresent(storage)
  /\ nextId = 0

\* --------------------------------------------------------- view claims
\* the view holds what load l brought
Holds(v, l) ==
  IF l.kind = "hotspots"
  THEN /\ v.hotspots \in { ListFor(l.for), EmptyList }
       /\ v.heatmapData \in { ListFor(l.for), EmptyList }
       /\ v.conditions \in { ListFor(l.for), NullData }
       /\ l.got["hotspots"] = "ok" => v.hotspots = ListFor(l.for)
       /\ l.got["heatmap"] = "ok" => v.heatmapData = ListFor(l.for)
       /\ l.got["conditions"] = "ok" => v.conditions = ListFor(l.for)
  ELSE IF l.kind = "analytics"
  THEN /\ v.monthlyData \in { ListFor(l.for), EmptyList }
       /\ v.vehicleData \in { ListFor(l.for), EmptyList }
  ELSE /\ v.selectedSchool # NoSchool
       /\ v.selectedSchool.urn = l.for

\* C19: a load in flight is never cancelled: it stays in flight, also
\* when the selection changes and another load starts, until its last
\* response arrives, and that step puts its data into the view whatever
\* the selection is by then; so the response that arrives last wins.
C19_NeverCancelledAppliedOnArrival ==
  [][ \A l \in loads :
        \/ \E k \in loads' : k.id = l.id /\ k.for = l.for
        \/ Holds(view', l) ]_vars

\* Hotspots shows the list of another year than the selected one, with
\* nothing left in flight
C19_Witness ==
  /\ view.page = "hotspots"
  /\ loads = {}
  /\ nextLoad = 2
  /\ view.hotspots # EmptyList
  /\ view.hotspots # ListFor(view.selectedYear)

\* ------------------------------------------------ updateProfile claims
UpdateSettled == last.ev = "settled" /\ last.op = "updateProfile"

\* what updateProfile does when the request succeeds, and what it
\* returns when it fails
UpdateSuccess ==
  /\ (UpdateSettled /\ last.status = 200)
       => /\ last.success = "true"
          /\ storage.user = Stringify(last.body.user)
          /\ user = last.body.user
          /\ storage.token = last.before.storage.token
          /\ storage.api_key = last.before.storage.api_key
          /\ defaultAuth = last.before.defaultAuth
  /\ (UpdateSettled /\ last.status # 200)
       => /\ last.success = "false"
          /\ last.error = IF TruthyMsg(last.detail) THEN last.detail
                          ELSE Str("Update failed")

\* C21 as stated: on success updateProfile replaces only the stored
\* profile and the user; on every failure, a 401 included, it returns
\* {success: false, error} and the stored profile is as before.
C21_FailureKeepsProfile ==
  /\ UpdateSuccess
  /\ (UpdateSettled /\ last.status # 200)
       => storage.user = last.before.storage.user

\* C21 amended: on a failure other than a 401 response the stored
\* profile is as before; on a 401 response the response interceptor has
\* removed the stored token, profile and api_key and signalled the
\* redirect; the success case and the result are as stated.
C21_FailureKeepsProfileUnless401 ==
  /\ UpdateSuccess
  /\ (UpdateSettled /\ last.status \notin {200, 401})
       => storage = last.before.storage
  /\ (UpdateSettled /\ last.status = 401)
       => storage = EmptyStorage /\ redirect

\* a profile update succeeded in a logged-in tab: the stored profile is
\* the new one and differs from the one before
C21_Witness ==
  /\ UpdateSettled /\ last.status = 200
  /\ AllPresent(last.before.storage)
  /\ storage.user # last.before.storage.user
  /\ storage.token = last.before.storage.token

\* ------------------------------------------------------ debounce claims
\* call k was followed by another call less than the delay later
Superseded(k) ==
  k < Len(hist.calls) /\ hist.calls[k + 1].at - hist.calls[k].at < 300

\* C22: at most one timer of the debounce is pending; a call cancels the
\* pending one, so the callback never runs for a call that was followed
\* by another less than 300 ms later: it runs once per burst, not before
\* 300 ms after the last call of the burst and with the arguments of
\* that call, and it has run for the last call once no timer is pending.
C22_OneRunPerBurst ==
  /\ Cardinality(amap.timers) <= 1
  /\ \A i \in 1..Len(hist.runs) :
       LET r == hist.runs[i] IN
         /\ r.after \in 1..Len(hist.calls)
         /\ ~Superseded(r.after)
         /\ r.args = hist.calls[r.after].args
         /\ r.at >= hist.calls[r.after].at + 300
         /\ \A j \in 1..Len(hist.runs) : hist.runs[j].after = r.after => j = i
  /\ (amap.timers = {} /\ hist.calls # << >>)
       => \E i \in 1..Len(hist.runs) : hist.runs[i].after = Len(hist.calls)

\* a burst of three clicks, each within 300 ms of the one before, on
\* different points: the callback ran once, for the last click
C22_Witness ==
  /\ Len(hist.calls) = 3
  /\ Superseded(1) /\ Superseded(2)
  /\ hist.calls[1].args # hist.calls[3].args
  /\ Len(hist.runs) = 1
  /\ hist.runs[1].args = hist.calls[3].args
  /\ amap.timers = {}

\* ------------------------------------------------------ marker claims
Elements(list) == { list[i] : i \in 1..Len(list) }

\* C23: useVisibleMarkers returns the list it was given when that has at
\* most maxVisible elements; otherwise it returns exactly maxVisible
\* different elements of the list such that no accident left out has a
\* lower severity number than one returned; the list it was given is
\* neither reordered nor changed.
C23_MostSevereFirst ==
  markers.rendered =>
    LET given == markers.accidents
        out   == markers.visible
    IN /\ \A i \in 1..Len(given) : given[i].id = i
       /\ Len(given) <= markers.maxVisible => out = given
       /\ Len(given) > markers.maxVisible =>
            /\ Len(out) = markers.maxVisible
            /\ Cardinality(Elements(out)) = markers.maxVisible
            /\ Elements(out) \subseteq Elements(given)
            /\ \A o \in Elements(given) \ Elements(out) : \A r \in Elements(out) :
                 ~(o.severity < r.severity)

\* a slight accident first and a fatal one later in a list longer than
\* maxVisible: the fatal one is returned, the slight one is left out
C23_Witness ==
  /\ markers.rendered
  /\ Len(markers.accidents) > markers.maxVisible
  /\ markers.maxVisible = 2
  /\ markers.accidents[1].severity = 3
  /\ markers.accidents[Len(markers.accidents)].severity = 1
  /\ markers.accidents[1] \notin Elements(markers.visible)
  /\ markers.accidents[Len(markers.accidents)] \in Elements(markers.visible)

\* ----------------------------------------------------- Dashboard claims
\* the fetches a load has issued are the first ones of health, summary,
\* time series, hourly patterns, in that order
InOrder(l) ==
  /\ Len(l.issued) \in 1..4
  /\ l.issued = SubSeq(<< "health", "summary", "timeSeries", "hourly" >>, 1, Len(l.issued))
  /\ l.awaiting = l.issued[Len(l.issued)]

\* the response of `fetch` has just arrived, successful or not
JustSettled(fetch, ok) ==
  /\ dash'.settled # dash.settled
  /\ dash'.settled[1].fetch = fetch
  /\ dash'.settled[1].ok = ok

\* the load whose response arrived has ended having issued `n` fetches
EndedAfter(n) ==
  /\ dash'.loads = {}
  /\ ~dash'.loading
  /\ dash'.finished[1].id = dash'.settled[1].id
  /\ Len(dash'.finished[1].issued) = n

\* C24: loadDashboardData issues health, summary, time series and hourly
\* patterns in that order, each after the response of the one before; a
\* failed health or summary fetch sets the error message and apiStatus
\* 'error' and ends the load with no later fetch; a failed time-series or
\* hourly fetch empties that data set only and leaves error null; when
\* the load ends, loading is false.
C24_SequentialLoad ==
  [][ /\ \A l \in dash'.loads : InOrder(l)
      /\ JustSettled("health", FALSE) =>
           /\ dash'.error = Str("Failed to load data. Make sure the API is running.")
           /\ dash'.apiStatus = "error"
           /\ EndedAfter(1)
      /\ JustSettled("summary", FALSE) =>
           /\ dash'.error = Str("Failed to load data. Make sure the API is running.")
           /\ dash'.apiStatus = "error"
           /\ EndedAfter(2)
      /\ JustSettled("timeSeries", FALSE) =>
           /\ dash'.timeSeries = << >>
           /\ dash'.error = NullMsg
           /\ dash'.apiStatus = dash.apiStatus
           /\ dash'.summary = dash.summary
           /\ dash'.hourlyPatterns = dash.hourlyPatterns
           /\ \E l \in dash'.loads : l.awaiting = "hourly"
      /\ JustSettled("hourly", FALSE) =>
           /\ dash'.hourlyPatterns = << >>
           /\ dash'.error = NullMsg
           /\ dash'.apiStatus = dash.apiStatus
           /\ dash'.summary = dash.summary
           /\ dash'.timeSeries = dash.timeSeries
           /\ EndedAfter(4)
      /\ JustSettled("hourly", TRUE) => EndedAfter(4)
      /\ dash'.loads = {} /\ dash'.mounted => ~dash'.loading ]_vars

\* the second load of the page: its time series failed, its hourly
\* patterns arrived; the summary is there, error is null, loading is false
C24_Witness ==
  /\ dash.nextLoad = 2
  /\ dash.loads = {}
  /\ dash.timeSeries = EmptyList
  /\ dash.hourlyPatterns # EmptyList
  /\ dash.summary # NullData
  /\ dash.error = NullMsg
  /\ ~dash.loading

\* ------------------------------------------------- parallel load claims
\* a load of the view has just ended and applied what it got
JustApplied == view'.applied # view.applied

\* what a fetch of the load brought: its data, or its default
Brought(l, f, data, default) == IF l.got[f] = "ok" THEN data ELSE default

\* C25: when a load of Hotspots or Analytics ends, every fetch of it that
\* failed is replaced by its default ([], or null for the conditions),
\* every fetch that succeeded is applied, the error of the view is null
\* and loading is false.
C25_FetchesFailIndependently ==
  [][ JustApplied =>
        LET l == view'.applied[1] IN
          /\ l.kind = "hotspots" =>
               /\ view'.hotspots = Brought(l, "hotspots", << l.for >>, << >>)
               /\ view'.heatmapData = Brought(l, "heatmap", << l.for >>, << >>)
               /\ view'.conditions = Brought(l, "conditions", << l.for >>, << "null" >>)
               /\ view'.error = NullMsg
               /\ ~view'.loading
          /\ l.kind = "analytics" =>
               /\ view'.yearData = Brought(l, "years", << BulkYears >>, << >>)
               /\ view'.monthlyData = Brought(l, "monthly", << l.for >>, << >>)
               /\ view'.hourlyData = Brought(l, "hourly", << l.for >>, << >>)
               /\ view'.dailyData = Brought(l, "daily", << l.for >>, << >>)
               /\ view'.policeData = Brought(l, "police", << l.for >>, << >>)
               /\ view'.vehicleData = Brought(l, "vehicles", << l.for >>, << >>)
               /\ ~view'.loading ]_vars

\* Hotspots after a load whose heatmap fetch failed and whose other two
\* fetches succeeded
C25_Witness ==
  /\ view.page = "hotspots"
  /\ view.applied # << >>
  /\ view.applied[1].got["heatmap"] = "failed"
  /\ view.applied[1].got["hotspots"] = "ok"
  /\ view.hotspots # EmptyList
  /\ view.heatmapData = EmptyList
  /\ view.conditions # NullData
  /\ view.error = NullMsg
  /\ ~view.loading

\* ------------------------------------------ credentials after teardown
\* C26: once the session is destroyed, by logout or by the teardown of a
\* 401, and until a login or signup succeeds, localStorage holds none of
\* the three entries; a request sent in that time carries neither an
\* Authorization nor an X-API-Key header.
C26_NoCredentialsAfterDestroy ==
  (last.ev = "call" /\ last.before.storage = EmptyStorage)
    => /\ last.headers.Authorization = None
       /\ last.headers.XApiKey = None

\* the handler that ran last found a complete session: the three entries
\* of one login and the provider's user
FoundSession ==
  /\ last.before.user # NullUser
  /\ last.before.storage.token # None
  /\ last.before.storage = StoredSession(last.before.storage.token, last.before.user)

\* C27: a 401 that answers a data request sent with another credential
\* than the one stored when it arrives (the stored session is that of a
\* login or signup that succeeded after the request left) leaves the
\* stored token, profile and api_key in place.
C27_StaleUnauthorizedKeepsSession ==
  (/\ last.ev = "settled" /\ last.op = "data" /\ last.status = 401
   /\ FoundSession
   /\ last.headers.Authorization # last.before.storage.token)
    => storage = last.before.storage

\* login() or signup() has just returned {success: false}
AuthFailed ==
  /\ last.ev = "settled"
  /\ last.op \in {"login", "signup"}
  /\ last.success = "false"

\* C28: when login or signup returns {success: false}, the stored token,
\* profile and api_key and the default Authorization header are what they
\* were, whatever the failing outcome, a 2xx response without a user
\* object included.
C28_FailedAuthChangesNothing ==
  AuthFailed => /\ storage = last.before.storage
                /\ defaultAuth = last.before.defaultAuth

\* The 2xx response of a login or signup arrives that left with the default
\* Authorization header of a session and finds neither that header nor a
\* stored entry: logout() has run while the request was in flight (only
\* logout deletes the header; a reload drops the requests in flight).
AuthArrivesAfterLogout ==
  /\ last.ev = "settled"
  /\ last.op \in {"login", "signup"}
  /\ last.success = "true"
  /\ last.headers.Authorization # None
  /\ last.before.defaultAuth = None
  /\ last.before.storage = EmptyStorage
  /\ last.before.user = NullUser

\* C29: the response of a login or signup that was in flight when logout
\* ran does not re-establish a session: storage, default header and user
\* stay empty.
C29_LogoutOutlivesPendingAuth ==
  AuthArrivesAfterLogout => /\ storage = EmptyStorage
                            /\ defaultAuth = None
                            /\ user = NullUser

\* a loadData of Hotspots is awaiting a response
LoadOutstanding ==
  /\ view.page = "hotspots"
  /\ \E l \in loads : l.kind = "hotspots"

\* C30: in Hotspots the loading flag is true while a load is outstanding,
\* also when a second load was started before the first has settled.
C30_LoadingWhileOutstanding ==
  LoadOutstanding => view.loading

====
